---- MODULE Spec2Model ----
(***************************************************************************)
(* A model of the visionary link-preview bot (src/visionary): the token     *)
(* bucket RateLimiter, the VKAPIHandle long-poll event source, the          *)
(* PuppetClient browser pool and the VisionServer worker pipeline.          *)
(*                                                                          *)
(* Concurrency is asyncio's: one event loop, so the code between two        *)
(* awaits is one atomic action.                                             *)
(***************************************************************************)
EXTENDS Integers, Sequences, FiniteSets, TLC

(***************************************************************************)
(* Program constants and model bounds                                      *)
(***************************************************************************)

\* RateLimiter(max_tokens=3): the bucket capacity (self.max).
max_tokens == 3

\* config.VKAPI_CHAT_OFFSET: peer_id = offset + chat_id.
VKAPI_CHAT_OFFSET == 2000000000

\* Clock units per refresh_time: time.monotonic() is read in steps of
\* refresh_time / Res, so fractions of a refill interval are visible.
Res == 2

\* How many tick() calls the counters ticks0 / grants0 count (a cap).
MaxTicks == 4

\* Where the model stops counting slept_for (in sleeps of 0.1 s): the counter
\* saturates there.
MaxSlept == 1

\* Concurrent callers of wait_for_token in SpecLimiter.
NCallers == 2

\* Worker routines (VisionServer._workers) that iterate wait_for_messages.
NWorkers == 2

\* How many events the long-poll server produces in SpecPoll.
PollEvents == 2

\* Messages the pipeline handles in one run.
PipeMsgs == 2

\* Messages the pipeline handles in a run that is interrupted.
StopMsgs == 1

\* Responses the tabs receive while one link is resolved.
MaxResponses == 3

\* process_link calls made on a client that is driven directly.
ClientCalls == 2

Min(a, b) == IF a < b THEN a ELSE b

Max(a, b) == IF a > b THEN a ELSE b

(***************************************************************************)
(* State                                                                   *)
(***************************************************************************)
VARIABLES
    \* ---- RateLimiter (util.py) ----
    value,          \* self.value: tokens available
    since_updated,  \* time.monotonic() - self.last_updated, in clock units,
                    \* saturated at max_tokens * Res (where the refill saturates)
    slept_for,      \* self.slept_for, in sleeps of 0.1 s
    lpc,            \* per caller of wait_for_token: "idle" | "sleep"
    ret,            \* per caller: what its last wait_for_token returned (-1: none yet)
    waited,         \* per caller: sleeps of its current / last wait_for_token call
    ticks0,         \* tick() calls made before the clock first advanced (capped)
    grants0,        \* how many of those returned True
    fresh,          \* TRUE until the clock first advances after construction
    last,           \* the latest tick() call: [el, had, ok]: the clock units since
                    \* last_updated and self.value as it began, and its result
                    \* (el = -1: no call yet)
    \* ---- the chat platform's long-poll server (external) ----
    evlog,          \* the events so far; event i is evlog[i], the server's ts is Len(evlog)
    lpTs,           \* aiovk LongPoll.ts: the ts the next long-poll request carries
    \* ---- VKAPIHandle (vkapi.py) ----
    listen_to,      \* self._listen_to: the listen peer id
    cursor,         \* self._longpoll_cursor
    wpc,            \* per worker: where its wait_for_messages / _process stands
    req,            \* per worker: the ts its long-poll request in flight carries (else 0)
    resp,           \* per worker: the long-poll response it is about to handle (else NoResp)
    batch,          \* per worker: the updates its for loop has still to visit
    cur,            \* per worker: the message text its loop body is handling (0: none)
    got,            \* per worker: the response whose batch its for loop is visiting
    out,            \* per worker: the texts yielded to it from that batch so far
    yielded,        \* per event: how often its text was yielded to a worker (capped)
    delivered,      \* the events some long-poll response has carried
    \* ---- VKAPIHandle.register / VisionServer.start ----
    dialogs,        \* the titles of the dialogs the platform lists (external)
    reply_name,     \* the reply chat name given at construction ("" for none)
    chat_cache,     \* self._chat_cache: <<>> for None, else <<the titles fetched>>
    reply_to,       \* self._reply_to: the reply peer id
    upload_uri,     \* self._upload_uri
    spc,            \* where start() stands
    bare,           \* the API operations that were issued without a token
    \* ---- VisionServer._process and PuppetClient (server.py, webclient_puppet.py) ----
    msgs,           \* the message texts wait_for_messages has yielded; message m is msgs[m]
    fate,           \* per message: how its handling stands or ended
    reply,          \* per message: the state of its reply in the chat
    tsend,          \* per message: the detached api_send_msg task
    tedit,          \* per message: the detached text api_edit_msg task
    tatt,           \* per message: the detached api_edit_msg task with the attachment
    editkind,       \* per message: what its text edit says
    tries,          \* per worker: the attempt its tenacity retry is at
    res,            \* per worker: what process_link returned
    tabs,           \* tabs open in the browser
    open_tab_count, \* PuppetClient._open_tab_count
    fails,          \* PuppetClient._fails
    msgid,          \* per message: sent, the id messages.send returned for its
                    \* reply (0: none yet), and edit, the msg_id its edit tasks
                    \* were given (0: no edit queued)
    \* ---- VisionServer.start after the workers are launched (server.py) ----
    loop,           \* where start() is: "pool" (line 163); "drain" (line 184
                    \* after a worker error); "cdrain" (line 184 after an
                    \* interrupt, the workers cancelled); "final" (line 188
                    \* after an interrupt); "closed" (line 190-195 have run);
                    \* "stopped" (an exception has left start())
    pending,        \* pending_tasks of line 180, as <<message, task>> pairs
    \* ---- PuppetClient.process_link, the redirect chain (webclient_puppet.py) ----
    chain,          \* one resolution: its link, its endpoint, redirect_queue,
                    \* and the rendered redirect_str; peer, the redirect_queue
                    \* of a resolution that runs at the same time in another
                    \* tab; evt, the latest response event (its number, its
                    \* tab, the host of its Location header)
    \* ---- PuppetClient.start / stop (webclient_puppet.py) ----
    browser,        \* PuppetClient._browser: "none" (None), "open" (launched),
                    \* "closed" (the handle of a browser that was closed)
    launching       \* start() is awaiting pyp.launch

limVars == <<value, since_updated, slept_for>>

tickVars == <<ticks0, grants0, last>>

callerVars == <<lpc, ret, waited>>

ghostVars == <<lpc, ret, waited, ticks0, grants0, fresh, last>>

pollVars == <<evlog, lpTs, listen_to, cursor, wpc, req, resp, batch, cur, got,
              out, yielded, delivered>>

startVars == <<dialogs, reply_name, chat_cache, reply_to, upload_uri, spc>>

tokVars == <<bare>>

pipeVars == <<msgs, fate, reply, tsend, tedit, tatt, editkind, tries, res,
              tabs, open_tab_count, fails, msgid, loop, pending>>

\* Everything but the limiter and its record.
webVars == <<chain, browser, launching>>

otherVars == <<pollVars, startVars, tokVars, pipeVars, webVars>>

vars == <<value, since_updated, slept_for, lpc, ret, waited, ticks0, grants0,
          fresh, last, evlog, lpTs, listen_to, cursor, wpc, req, resp, batch,
          cur, got, out, yielded, delivered, dialogs, reply_name, chat_cache,
          reply_to, upload_uri, spc, bare, msgs, fate, reply, tsend, tedit,
          tatt, editkind, tries, res, tabs, open_tab_count, fails, msgid,
          loop, pending, chain, browser, launching>>

Workers == 1..NWorkers

Callers == 1..NCallers

\* Peer ids: the listen chat's and another dialog's.
ListenPeer == VKAPI_CHAT_OFFSET + 1

OtherPeer == VKAPI_CHAT_OFFSET + 2

\* Python's None where an id is expected.
None == -1

\* The chat names: the listen chat's (visionary.py's default) and another's.
ListenName == "TEST_DLG"

OtherName == "OTHER"

\* The chat_id the platform gives a dialog title.
ChatId(title) == IF title = ListenName THEN 1 ELSE 2

\* No response: before a worker's first long-poll response.
NoResp == [ts |-> -1, updates |-> <<>>, accepted |-> FALSE]

(***************************************************************************)
(* RateLimiter                                                             *)
(***************************************************************************)

\* Where the refill saturates: more elapsed time refills no more tokens.
SinceCap == max_tokens * Res

\* RateLimiter.__init__: value = max = max_tokens, last_updated = now.
LimiterInit ==
    /\ value = max_tokens
    /\ since_updated = 0
    /\ slept_for = 0

\* Mutant of TickRefill: the elapsed time is not divided by refresh_time.
TickRefill_NoInterval == since_updated

\* tick, line 110-111: refill = floor((monotonic() - last_updated) / refresh_time)
TickRefill == since_updated \div Res

\* Mutant of TickValue: the refill is not capped at self.max.
TickValue_NoCap == value + TickRefill

\* tick, line 112: self.value = min(self.value + refill, self.max)
TickValue == Min(value + TickRefill, max_tokens)

\* Mutant of TickGrants: no tick is ever granted.
TickGrants_Never == TickValue > max_tokens

\* tick, line 113: the call fails when self.value < 1
TickGrants == TickValue >= 1

\* Mutant of TickCore: last_updated is set by a failed call as well.
TickCore_StampOnFail(ok) ==
    /\ ok = TickGrants
    /\ value' = IF TickGrants THEN TickValue - 1 ELSE TickValue
    /\ since_updated' = 0

\* RateLimiter.tick as a state change; ok is its return value.
TickCore(ok) ==
    /\ ok = TickGrants
    /\ value' = IF TickGrants THEN TickValue - 1 ELSE TickValue
    /\ since_updated' = IF TickGrants THEN 0 ELSE since_updated

\* tick, with the record SpecLimiter keeps of the call.
Tick(ok) ==
    /\ TickCore(ok)
    /\ last' = [el |-> since_updated, had |-> value, ok |-> ok]
    /\ ticks0' = IF fresh THEN Min(ticks0 + 1, MaxTicks) ELSE ticks0
    /\ grants0' = IF fresh /\ ok THEN Min(grants0 + 1, MaxTicks) ELSE grants0

\* The clock: one unit of time.monotonic() passes.
ClockStep == since_updated' = Min(since_updated + 1, SinceCap)

Advance ==
    /\ ClockStep
    /\ fresh' = FALSE
    /\ UNCHANGED <<value, slept_for, tickVars>>

\* A direct tick() call (try_acquire).
TickCall ==
    /\ \E ok \in BOOLEAN : Tick(ok)
    /\ UNCHANGED <<slept_for, fresh, callerVars>>

\* wait_for_token, first pass of the loop: tick(); return slept_for when it
\* grants, else go to sleep(0.1).
WftCall(c) ==
    /\ lpc[c] = "idle"
    /\ \E ok \in BOOLEAN :
        /\ Tick(ok)
        /\ lpc' = [lpc EXCEPT ![c] = IF ok THEN "idle" ELSE "sleep"]
        /\ ret' = [ret EXCEPT ![c] = IF ok THEN slept_for ELSE -1]
    /\ waited' = [waited EXCEPT ![c] = 0]
    /\ UNCHANGED <<slept_for, fresh>>

\* wait_for_token, after sleep(0.1): slept_for += 0.1, then tick() again.
WftWake(c) ==
    /\ lpc[c] = "sleep"
    /\ slept_for' = Min(slept_for + 1, MaxSlept)
    /\ waited' = [waited EXCEPT ![c] = Min(@ + 1, MaxSlept)]
    /\ \E ok \in BOOLEAN :
        /\ Tick(ok)
        /\ lpc' = [lpc EXCEPT ![c] = IF ok THEN "idle" ELSE "sleep"]
        /\ ret' = [ret EXCEPT ![c] = IF ok THEN slept_for' ELSE -1]
    /\ UNCHANGED fresh

\* The event source before any worker runs (and throughout SpecLimiter).
PollIdle ==
    /\ evlog = <<>>
    /\ lpTs = 0
    /\ listen_to = ListenPeer
    /\ cursor = -1
    /\ wpc = [w \in Workers |-> "rate"]
    /\ req = [w \in Workers |-> 0]
    /\ resp = [w \in Workers |-> NoResp]
    /\ batch = [w \in Workers |-> <<>>]
    /\ cur = [w \in Workers |-> 0]
    /\ got = [w \in Workers |-> NoResp]
    /\ out = [w \in Workers |-> <<>>]
    /\ yielded = <<>>
    /\ delivered = {}

\* The handle after a successful register() with the default reply chat.
Registered ==
    /\ dialogs = {ListenName}
    /\ reply_name = ""
    /\ chat_cache = <<{ListenName}>>
    /\ reply_to = ListenPeer
    /\ upload_uri = "uri"
    /\ spc = "run"
    /\ bare = {}

\* A redirect_queue item or a URL: a host and a path ("" for a bare host).
Item(h, p) == [host |-> h, path |-> p]

\* No response event yet.
NoEvent == [n |-> 0, tab |-> 0, domain |-> ""]

\* No resolution is being looked at.
WebIdle ==
    chain = [pc |-> "idle", link |-> Item("", ""), endpoint |-> Item("", ""),
             netloc |-> "host", queue |-> <<>>, seen |-> <<>>, str |-> <<>>,
             peer |-> <<>>, evt |-> NoEvent]

\* PuppetClient.start() has run (server.py line 157).
Launched == browser = "open" /\ launching = FALSE

\* The pipeline before any message: no task, no tab (PuppetClient's class
\* attributes).
PipeIdle ==
    /\ msgs = <<>>
    /\ fate = <<>>
    /\ reply = <<>>
    /\ tsend = <<>>
    /\ tedit = <<>>
    /\ tatt = <<>>
    /\ editkind = <<>>
    /\ tries = [w \in Workers |-> 0]
    /\ res = [w \in Workers |-> ""]
    /\ tabs = 0
    /\ open_tab_count = 0
    /\ fails = 0
    /\ msgid = <<>>
    /\ loop = "pool"
    /\ pending = {}

GhostInit ==
    /\ lpc = [c \in Callers |-> "idle"]
    /\ ret = [c \in Callers |-> -1]
    /\ waited = [c \in Callers |-> 0]
    /\ ticks0 = 0
    /\ grants0 = 0
    /\ fresh = TRUE
    /\ last = [el |-> -1, had |-> max_tokens, ok |-> FALSE]

InitLimiter ==
    /\ LimiterInit
    /\ GhostInit
    /\ WebIdle
    /\ Launched
    /\ PollIdle
    /\ Registered
    /\ PipeIdle

NextLimiter ==
    \/ Advance /\ UNCHANGED callerVars /\ UNCHANGED otherVars
    \/ TickCall /\ UNCHANGED otherVars
    \/ \E c \in Callers : WftCall(c) /\ UNCHANGED otherVars
    \/ \E c \in Callers : WftWake(c) /\ UNCHANGED otherVars

SpecLimiter == InitLimiter /\ [][NextLimiter]_vars

\* The limiter with the tasks that call wait_for_token on it as its only
\* consumers: a caller that is "off" never calls, so that the limiter has
\* one consumer, or several.
InitWait ==
    /\ LimiterInit
    /\ lpc \in [Callers -> {"idle", "off"}]
    /\ ret = [c \in Callers |-> -1]
    /\ waited = [c \in Callers |-> 0]
    /\ ticks0 = 0
    /\ grants0 = 0
    /\ fresh = TRUE
    /\ last = [el |-> -1, had |-> max_tokens, ok |-> FALSE]
    /\ WebIdle
    /\ Launched
    /\ PollIdle
    /\ Registered
    /\ PipeIdle

\* Time passes.
WaitClock == Advance /\ UNCHANGED callerVars /\ UNCHANGED otherVars

\* asyncio.sleep(0.1) of wait_for_token line 122 is over and the loop
\* resumes the caller.
WaitWake(c) == WftWake(c) /\ UNCHANGED otherVars

NextWait ==
    \/ WaitClock
    \/ \E c \in Callers : WftCall(c) /\ UNCHANGED otherVars
    \/ \E c \in Callers : WaitWake(c)

\* The clock runs, and the event loop resumes every task whose sleep is
\* over; when a task calls wait_for_token is up to the task.
SpecWait ==
    /\ InitWait
    /\ [][NextWait]_vars
    /\ WF_vars(WaitClock)
    /\ \A c \in Callers : WF_vars(WaitWake(c))

(***************************************************************************)
(* Claims about the RateLimiter (checked under SpecLimiter)                *)
(***************************************************************************)

\* C6: in every reachable state of the RateLimiter, whatever tick and
\* wait_for_token calls were made and however much time passed between them,
\* the number of available tokens is within 0..max.
C6_TokensInRange == 0 <= value /\ value <= max_tokens

\* C6 witness: the clock has advanced, a wait_for_token call had to sleep and
\* was then granted a token, and the latest tick refilled the bucket.
C6_Witness ==
    /\ ~fresh
    /\ \E c \in Callers : ret[c] >= 1
    /\ last.el >= Res
    /\ last.ok

\* C7: a limiter of capacity C = max_tokens and refill interval T = Res clock
\* units that starts full grants the first C tick calls made before any time
\* passes and refuses every further one; a tick made at least T after the last
\* update is granted; a tick on an empty bucket is refused before T has passed
\* and, between T and 2T, is granted exactly the one token refilled; the
\* bucket never holds more than C.
C7_BucketContract ==
    /\ fresh => grants0 = Min(ticks0, max_tokens)
    /\ (fresh /\ ticks0 > 0) => (last.ok <=> ticks0 <= max_tokens)
    /\ last.el >= Res => last.ok
    /\ (last.el >= 0 /\ last.el < Res /\ last.had = 0) => ~last.ok
    /\ (last.el >= Res /\ last.el < 2 * Res /\ last.had = 0) => value = 0
    /\ value <= max_tokens

\* C7 witness: C + 1 ticks were made before time passed (C granted, one
\* refused), and then a tick made between T and 2T later on the empty bucket
\* was granted.
C7_Witness ==
    /\ ~fresh
    /\ ticks0 > max_tokens
    /\ grants0 = max_tokens
    /\ last.had = 0
    /\ last.el >= Res
    /\ last.el < 2 * Res
    /\ last.ok

(***************************************************************************)
(* The long-poll server and aiovk's LongPoll (external collaborators)      *)
(*                                                                         *)
(* The server numbers its events 1, 2, ...; a request that carries ts = r  *)
(* is answered with the events r+1 .. c the server has when it answers and *)
(* with ts = c (an answer with c = r is the long-poll timeout: no updates).*)
(* LongPoll.wait sends the request with LongPoll.ts and stores the         *)
(* answer's ts there before it returns.                                    *)
(***************************************************************************)

\* An update record as wait_for_messages reads it: update[0] is the event
\* code (4: new message), update[3] the peer id, update[6] the message text.
\* The text of event i is modelled by i itself.
UpdateKinds ==
    { [code |-> 4, peer |-> ListenPeer],
      [code |-> 4, peer |-> OtherPeer],
      [code |-> 8, peer |-> ListenPeer] }

\* A new event happens on the platform.
ServerEvent(n) ==
    /\ Len(evlog) < n
    /\ \E k \in UpdateKinds :
        /\ evlog' = Append(evlog, [id |-> Len(evlog) + 1, code |-> k.code, peer |-> k.peer])
        /\ yielded' = Append(yielded, 0)
    /\ UNCHANGED <<lpTs, listen_to, cursor, wpc, req, resp, batch, cur, got, out, delivered>>

\* The server answers worker w's long-poll request.
ServerRespond(w) ==
    /\ wpc[w] = "wait"
    /\ LET c == Len(evlog)
           ups == SubSeq(evlog, req[w] + 1, c)
       IN  /\ resp' = [resp EXCEPT ![w] = [ts |-> c, updates |-> ups, accepted |-> FALSE]]
           /\ delivered' = delivered \cup (req[w] + 1 .. c)
    /\ wpc' = [wpc EXCEPT ![w] = "resp"]
    /\ req' = [req EXCEPT ![w] = 0]
    /\ UNCHANGED <<evlog, lpTs, listen_to, cursor, batch, cur, got, out, yielded>>

(***************************************************************************)
(* VKAPIHandle._rate and wait_for_messages                                 *)
(***************************************************************************)

\* _rate -> wait_for_token, first pass: tick(); ok is whether it granted.
RateFirst(ok) ==
    /\ TickCore(ok)
    /\ UNCHANGED slept_for

\* _rate -> wait_for_token after a sleep(0.1): slept_for += 0.1, tick() again.
RateRetry(ok) ==
    /\ TickCore(ok)
    /\ slept_for' = Min(slept_for + 1, MaxSlept)

\* wait_for_messages line 188: the batch is discarded when its ts is not new.
StaleResponse_Never(ts) == FALSE

StaleResponse_Strict(ts) == ts < cursor

StaleResponse(ts) == ts <= cursor

\* wait_for_messages line 197: a new-message event addressed to the listen peer.
IsNewMessage_AnyPeer(u) == u.code = 4

IsNewMessage_AnyCode(u) == u.peer = listen_to

IsNewMessage(u) == u.code = 4 /\ u.peer = listen_to

\* The texts wait_for_messages yields for a batch, in batch order.
RECURSIVE TextsOf(_)
TextsOf(ups) ==
    IF ups = <<>> THEN <<>>
    ELSE IF IsNewMessage(Head(ups)) THEN <<Head(ups).id>> \o TextsOf(Tail(ups))
         ELSE TextsOf(Tail(ups))

\* wait_for_messages line 186-187, first pass of _rate: with a token the
\* long-poll request goes out carrying LongPoll.ts; without one the worker
\* sleeps in wait_for_token.
PollRate(w) ==
    /\ wpc[w] = "rate"
    /\ \E ok \in BOOLEAN :
        /\ RateFirst(ok)
        /\ wpc' = [wpc EXCEPT ![w] = IF ok THEN "wait" ELSE "rsleep"]
        /\ req' = [req EXCEPT ![w] = IF ok THEN lpTs ELSE @]
    /\ UNCHANGED <<evlog, lpTs, listen_to, cursor, resp, batch, cur, got, out, yielded, delivered>>

\* The same after a sleep(0.1) in wait_for_token.
PollRateRetry(w) ==
    /\ wpc[w] = "rsleep"
    /\ \E ok \in BOOLEAN :
        /\ RateRetry(ok)
        /\ wpc' = [wpc EXCEPT ![w] = IF ok THEN "wait" ELSE "rsleep"]
        /\ req' = [req EXCEPT ![w] = IF ok THEN lpTs ELSE @]
    /\ UNCHANGED <<evlog, lpTs, listen_to, cursor, resp, batch, cur, got, out, yielded, delivered>>

\* wait_for_messages line 187-195: LongPoll.wait returns the response (and
\* has stored its ts); a stale batch is dropped, a new one advances the cursor
\* and enters the for loop.
PollHandle(w) ==
    /\ wpc[w] = "resp"
    /\ lpTs' = resp[w].ts
    /\ IF StaleResponse(resp[w].ts)
       THEN /\ cursor' = cursor
            /\ batch' = [batch EXCEPT ![w] = <<>>]
            /\ got' = [got EXCEPT ![w] = NoResp]
            /\ wpc' = [wpc EXCEPT ![w] = "rate"]
       ELSE /\ cursor' = resp[w].ts
            /\ batch' = [batch EXCEPT ![w] = resp[w].updates]
            /\ got' = [got EXCEPT ![w] = [resp[w] EXCEPT !.accepted = TRUE]]
            /\ wpc' = [wpc EXCEPT ![w] = "iter"]
    /\ resp' = [resp EXCEPT ![w] = NoResp]
    /\ out' = [out EXCEPT ![w] = <<>>]
    /\ UNCHANGED <<evlog, listen_to, req, cur, yielded, delivered>>

\* wait_for_messages line 196-199: one pass of the for loop; a matching
\* update's text is yielded to the worker's async for.
PollIter(w) ==
    /\ wpc[w] = "iter"
    /\ IF batch[w] = <<>>
       THEN /\ wpc' = [wpc EXCEPT ![w] = "rate"]
            /\ got' = [got EXCEPT ![w] = NoResp]
            /\ out' = [out EXCEPT ![w] = <<>>]
            /\ UNCHANGED <<batch, cur, yielded>>
       ELSE LET u == Head(batch[w])
            IN  /\ batch' = [batch EXCEPT ![w] = Tail(@)]
                /\ IF IsNewMessage(u)
                   THEN /\ cur' = [cur EXCEPT ![w] = u.id]
                        /\ out' = [out EXCEPT ![w] = Append(@, u.id)]
                        /\ yielded' = [yielded EXCEPT ![u.id] = Min(@ + 1, 2)]
                        /\ wpc' = [wpc EXCEPT ![w] = "body"]
                   ELSE UNCHANGED <<cur, out, yielded, wpc>>
                /\ UNCHANGED got
    /\ UNCHANGED <<evlog, lpTs, listen_to, cursor, req, resp, delivered>>

(***************************************************************************)
(* SpecPoll: N workers iterate wait_for_messages on the one VKAPIHandle.   *)
(* What _process does with a message is left open here: the loop body      *)
(* either comes back for the next message or ends the worker by raising.   *)
(***************************************************************************)

\* _process line 81-148 for one message, ending normally (the async for
\* resumes the generator).
BodyReturns(w) ==
    /\ wpc[w] = "body"
    /\ wpc' = [wpc EXCEPT ![w] = "iter"]
    /\ cur' = [cur EXCEPT ![w] = 0]
    /\ UNCHANGED <<evlog, lpTs, listen_to, cursor, req, resp, batch, got, out, yielded, delivered>>

\* _process line 92-98 raising (process_link fails, or the captcha
\* RuntimeError): the worker routine ends and its generator is dropped.
BodyRaises(w) ==
    /\ wpc[w] = "body"
    /\ wpc' = [wpc EXCEPT ![w] = "dead"]
    /\ UNCHANGED <<evlog, lpTs, listen_to, cursor, req, resp, batch, cur, got, out, yielded, delivered>>

\* What the event source leaves alone.
PollFrame == UNCHANGED <<ghostVars, startVars, tokVars, pipeVars, webVars>>

InitPoll ==
    /\ LimiterInit
    /\ GhostInit
    /\ WebIdle
    /\ Launched
    /\ PollIdle
    /\ Registered
    /\ PipeIdle

NextPoll ==
    \/ ClockStep /\ UNCHANGED <<value, slept_for>> /\ UNCHANGED pollVars /\ PollFrame
    \/ ServerEvent(PollEvents) /\ UNCHANGED limVars /\ PollFrame
    \/ \E w \in Workers : ServerRespond(w) /\ UNCHANGED limVars /\ PollFrame
    \/ \E w \in Workers : PollRate(w) /\ PollFrame
    \/ \E w \in Workers : PollRateRetry(w) /\ PollFrame
    \/ \E w \in Workers : PollHandle(w) /\ UNCHANGED limVars /\ PollFrame
    \/ \E w \in Workers : PollIter(w) /\ UNCHANGED limVars /\ PollFrame
    \/ \E w \in Workers : BodyReturns(w) /\ UNCHANGED limVars /\ PollFrame
    \/ \E w \in Workers : BodyRaises(w) /\ UNCHANGED limVars /\ PollFrame

SpecPoll == InitPoll /\ [][NextPoll]_vars

(***************************************************************************)
(* Claims about the event source (checked under SpecPoll)                  *)
(***************************************************************************)

\* C2: no chat event is processed more than once: the text of an event is
\* yielded to at most one worker, at most once.
C2_NoEventTwice == \A i \in DOMAIN yielded : yielded[i] <= 1

\* Event i is still on its way to a worker: in a response a live worker has
\* yet to handle, or in the rest of the batch a live worker is visiting.
C3_Pending(i) ==
    \E w \in Workers :
        /\ wpc[w] # "dead"
        /\ \/ \E k \in DOMAIN batch[w] : batch[w][k].id = i
           \/ \E k \in DOMAIN resp[w].updates : resp[w].updates[k].id = i

\* C3: no chat event is lost: every new-message event addressed to the listen
\* peer that some long-poll response has carried was yielded to a worker, or
\* is still on its way to one.
C3_NoEventLost ==
    \A i \in delivered :
        (evlog[i].code = 4 /\ evlog[i].peer = listen_to)
            => (yielded[i] >= 1 \/ C3_Pending(i))

\* C4: the long-poll cursor never decreases, and it changes only in the step
\* in which a worker's wait_for_messages accepts a response.
C4_CursorMonotone ==
    [][ /\ cursor' >= cursor
        /\ cursor' # cursor =>
             \E w \in Workers : wpc[w] = "resp" /\ wpc'[w] = "iter" ]_vars

\* C4 witness: a response with a lower cursor was handled after one with a
\* higher cursor had been accepted (LongPoll.ts fell behind the cursor).
C4_Witness == cursor > 0 /\ lpTs >= 0 /\ lpTs < cursor

\* The texts of the new-message events addressed to the listen peer, in
\* batch order.
RECURSIVE C5_Expected(_)
C5_Expected(ups) ==
    IF ups = <<>> THEN <<>>
    ELSE IF Head(ups).code = 4 /\ Head(ups).peer = listen_to
         THEN <<Head(ups).id>> \o C5_Expected(Tail(ups))
         ELSE C5_Expected(Tail(ups))

C5_IsPrefix(a, b) == Len(a) <= Len(b) /\ a = SubSeq(b, 1, Len(a))

\* C5: a response whose cursor is not strictly greater than the last-seen
\* cursor yields nothing and leaves the cursor unchanged; one with a strictly
\* greater cursor advances the cursor to it and yields, in batch order, the
\* texts of exactly the new-message events addressed to the listen peer.
C5_DedupAndFilter ==
    /\ [](\A w \in Workers : C5_IsPrefix(out[w], C5_Expected(got[w].updates)))
    /\ [][ \A w \in Workers :
            /\ (wpc[w] = "resp" /\ wpc'[w] # "resp" /\ resp[w].ts <= cursor) =>
                 /\ cursor' = cursor
                 /\ wpc'[w] = "rate"
                 /\ yielded' = yielded
                 /\ batch'[w] = <<>>
            /\ (wpc[w] = "resp" /\ wpc'[w] # "resp" /\ resp[w].ts > cursor) =>
                 /\ cursor' = resp[w].ts
                 /\ wpc'[w] = "iter"
                 /\ batch'[w] = resp[w].updates
                 /\ got'[w].updates = resp[w].updates
            /\ (wpc[w] = "iter" /\ wpc'[w] = "rate") =>
                 out[w] = C5_Expected(got[w].updates) ]_vars

\* C5 witness: a worker has visited a whole accepted batch of which one
\* update was yielded and another was not.
C5_Witness ==
    \E w \in Workers :
        /\ wpc[w] = "iter"
        /\ batch[w] = <<>>
        /\ got[w].accepted
        /\ Len(out[w]) >= 1
        /\ Len(got[w].updates) > Len(out[w])

(***************************************************************************)
(* SpecStart: VisionServer.start up to the creation of the workers, for    *)
(* every choice of the dialogs the platform lists and of the reply chat.   *)
(***************************************************************************)

\* _api_get_chat_id line 82-86: the peer id of the first cached dialog with
\* that title, or None.
GetChatId(cache, name) ==
    IF name \in cache THEN VKAPI_CHAT_OFFSET + ChatId(name) ELSE None

\* An API call goes out; rated says whether its call site obtained a token
\* through _rate() for it. A call issued without one is recorded in bare.
Issue(op, rated) == bare' = IF rated THEN bare ELSE bare \cup {op}

\* register line 38-44 and _api_get_chat_id line 75-78: the cache is empty,
\* so _rate() and then messages.getDialogs. (The bucket starts with
\* max_tokens tokens and start() makes two calls: no _rate() of it sleeps.)
RegisterDialogs ==
    /\ spc = "register"
    /\ chat_cache = <<>>
    /\ RateFirst(TRUE)
    /\ Issue("getDialogs", TRUE)
    /\ spc' = "dlg_call"
    /\ UNCHANGED <<dialogs, reply_name, chat_cache, reply_to, upload_uri, listen_to, browser>>

\* register line 49-53: the reply peer; a reply name is looked up in the
\* cache (no API call), and its result is stored as it comes.
ReplyPeer(cache, listen) ==
    IF reply_name = "" THEN listen ELSE GetChatId(cache, reply_name)

\* messages.getDialogs answers: _api_get_chat_id line 79-86 and register
\* line 44-55. ValueError when the listen chat is not found; else the reply
\* peer is set, and _api_get_photo_upload_uri does its _rate() and issues
\* photos.getMessagesUploadServer.
RegisterResolve ==
    /\ spc = "dlg_call"
    /\ chat_cache' = <<dialogs>>
    /\ listen_to' = GetChatId(dialogs, ListenName)
    /\ IF listen_to' = None
       THEN /\ spc' = "failed"
            /\ UNCHANGED <<reply_to, limVars, bare>>
       ELSE /\ reply_to' = ReplyPeer(dialogs, listen_to')
            /\ RateFirst(TRUE)
            /\ Issue("getMessagesUploadServer", TRUE)
            /\ spc' = "uri_call"
    /\ UNCHANGED <<dialogs, reply_name, upload_uri, browser>>

\* photos.getMessagesUploadServer answers: line 98-99, register line 56-57;
\* then start() line 157-158 launches the browser and connects to redis.
RegisterDone ==
    /\ spc = "uri_call"
    /\ upload_uri' = "uri"
    /\ spc' = "services"
    /\ browser' = "open"
    /\ UNCHANGED <<dialogs, reply_name, chat_cache, reply_to, listen_to, limVars, bare>>

\* start() line 161-163: the worker routines are created and the loop runs them.
StartWorkers ==
    /\ spc = "services"
    /\ spc' = "run"
    /\ UNCHANGED <<dialogs, reply_name, chat_cache, reply_to, upload_uri, listen_to, limVars, bare, browser>>

\* The handle as constructed (VKAPIHandle.__init__), for any dialogs on the
\* platform and any reply chat name.
InitStart ==
    /\ LimiterInit
    /\ GhostInit
    /\ WebIdle
    /\ evlog = <<>>
    /\ lpTs = 0
    /\ listen_to = None
    /\ cursor = -1
    /\ wpc = [w \in Workers |-> "rate"]
    /\ req = [w \in Workers |-> 0]
    /\ resp = [w \in Workers |-> NoResp]
    /\ batch = [w \in Workers |-> <<>>]
    /\ cur = [w \in Workers |-> 0]
    /\ got = [w \in Workers |-> NoResp]
    /\ out = [w \in Workers |-> <<>>]
    /\ yielded = <<>>
    /\ delivered = {}
    /\ dialogs \in SUBSET {ListenName, OtherName}
    /\ reply_name \in {"", ListenName, OtherName}
    /\ chat_cache = <<>>
    /\ reply_to = None
    /\ upload_uri = ""
    /\ spc = "register"
    /\ bare = {}
    /\ PipeIdle
    /\ browser = "none"
    /\ launching = FALSE

StartFrame == UNCHANGED <<ghostVars, pipeVars, chain, launching, evlog, lpTs, cursor, wpc, req, resp, batch, cur, got, out, yielded, delivered>>

NextStart ==
    \/ ClockStep /\ UNCHANGED <<value, slept_for, listen_to, bare, browser>> /\ UNCHANGED startVars /\ StartFrame
    \/ RegisterDialogs /\ StartFrame
    \/ RegisterResolve /\ StartFrame
    \/ RegisterDone /\ StartFrame
    \/ StartWorkers /\ StartFrame

SpecStart == InitStart /\ [][NextStart]_vars

\* C9: startup fails, and no worker routine is ever started, whenever the
\* listen chat name or a distinct reply chat name matches no dialog title:
\* whenever the workers run, the listen peer id and the reply peer id are
\* both set.
C9_StartupNeedsBothPeers ==
    spc = "run" =>
        /\ ListenName \in dialogs
        /\ (reply_name # "" => reply_name \in dialogs)
        /\ listen_to # None
        /\ reply_to # None

\* ---------------------------------------------------------------------------
\* The pipeline: VisionServer._process (server.py), PuppetClient.process_link
\* (webclient_puppet.py) and the API calls of VKAPIHandle (vkapi.py).
\* A URL is its host and its path cut into tokens; a message text is whether
\* it starts with http(s)://, whether a <br> follows the link, and the URL.
\* ---------------------------------------------------------------------------

FileUrl == [host |-> "x.com", path |-> <<"/", "report", ".", "pdf">>]

PageUrl == [host |-> "x.com", path |-> <<"/", "page", ".", "html">>]

NoLink == [host |-> "", path |-> <<>>]

\* The texts the listen chat sends: a link after other text, a link with no
\* <br> after it, a link to a pdf, a link to an html page.
PipeTexts ==
    { [start |-> FALSE, br |-> TRUE, url |-> PageUrl],
      [start |-> TRUE, br |-> FALSE, url |-> PageUrl],
      [start |-> TRUE, br |-> TRUE, url |-> FileUrl],
      [start |-> TRUE, br |-> TRUE, url |-> PageUrl] }

\* Mutant of FindLink: the <br> after the link is not asked for.
FindLink_NoBr(t) == IF t.start THEN t.url ELSE NoLink

\* find_link_br: the match of ^https?://[^<]+<br>, or None.
FindLink(t) == IF t.start /\ t.br THEN t.url ELSE NoLink

\* furl's path.isfile: the path does not end with a slash.
PathIsFile(p) == p # <<>> /\ p[Len(p)] # "/"

\* pathstr.rindex('.'): the position of the last dot, 0 for ValueError.
LastDot(p) ==
    LET dots == {i \in 1..Len(p) : p[i] = "."}
    IN  IF dots = {} THEN 0 ELSE CHOOSE i \in dots : \A j \in dots : j <= i

\* The tokens re.sub('[^A-Za-z.]+', '', ...) keeps.
LetterTokens == {"report", "pdf", "page", "html", "php", "."}

\* re.sub('[^A-Za-z.]+', '', pathstr[last_dot_pos:])
Extension(p) ==
    SelectSeq(SubSeq(p, LastDot(p), Len(p)), LAMBDA t : t \in LetterTokens)

WEBCLIENT_ALLOWED_FILES == {<<".", "html">>, <<".", "php">>}

\* process_link line 99-106: the link is classified as a file.
IsFileLink(u) ==
    /\ PathIsFile(u.path)
    /\ LastDot(u.path) # 0
    /\ Extension(u.path) \notin WEBCLIENT_ALLOWED_FILES

\* What the file branch of process_link ends with: ResolvedLink is a
\* NamedTuple with no defaults and the call at line 107-112 passes no
\* snapshot, so the constructor raises TypeError.
FileBranchResult == "TypeError"

\* The reply states that end a link's handling.
Terminal == {"timeout", "file", "resolved", "attached"}

\* PuppetClient(image_path, workers), server.py line 45: max_tabs is the
\* number of workers.
max_tabs == NWorkers

\* _get_tab line 59-63: with the counter below max_tabs the tab is requested
\* at once.
TabCapacity == open_tab_count < max_tabs

\* No message id: the send has not returned, no edit was queued.
NoId == 0

\* The id the platform gives the next message sent to the chat (messages.send
\* returns it): ids are unique and grow.
NextMsgId == 1 + Cardinality({m \in DOMAIN msgid : msgid[m].sent # NoId})

\* Mutant of EditMsgId: the id is that of the latest send that returned,
\* whichever worker's it was.
EditMsgId_Latest(w) == NextMsgId - 1

\* _process line 95: message_id, the worker's local variable, is the result
\* of its own message_task.
EditMsgId(w) == msgid[cur[w]].sent

\* The message whose reply an edit task of message m addresses by its msg_id.
EditTarget(m) == CHOOSE n \in DOMAIN msgid : msgid[n].sent = msgid[m].edit

\* The workers wait in `async for`, nothing else has happened.
InitPipe ==
    /\ LimiterInit
    /\ GhostInit
    /\ WebIdle
    /\ Launched
    /\ Registered
    /\ PipeIdle
    /\ evlog = <<>>
    /\ lpTs = 0
    /\ listen_to = ListenPeer
    /\ cursor = -1
    /\ wpc = [w \in Workers |-> "next"]
    /\ req = [w \in Workers |-> 0]
    /\ resp = [w \in Workers |-> NoResp]
    /\ batch = [w \in Workers |-> <<>>]
    /\ cur = [w \in Workers |-> 0]
    /\ got = [w \in Workers |-> NoResp]
    /\ out = [w \in Workers |-> <<>>]
    /\ yielded = <<>>
    /\ delivered = {}

\* _process line 80-92 and process_link line 95-113: wait_for_messages yields
\* a text to worker w. With no link the worker continues; else api_send_msg
\* is queued and process_link runs up to its first await: the file branch
\* raises, any other link asks the browser for a tab.
Deliver(w) ==
    /\ wpc[w] = "next"
    /\ Len(msgs) < PipeMsgs
    /\ \E t \in PipeTexts :
        LET m == Len(msgs) + 1
            link == FindLink(t)
        IN  /\ msgs' = Append(msgs, t)
            /\ reply' = Append(reply, "none")
            /\ tedit' = Append(tedit, "none")
            /\ tatt' = Append(tatt, "none")
            /\ editkind' = Append(editkind, "")
            /\ msgid' = Append(msgid, [sent |-> NoId, edit |-> NoId])
            /\ IF link = NoLink
               THEN /\ fate' = Append(fate, "nolink")
                    /\ tsend' = Append(tsend, "none")
                    /\ UNCHANGED <<wpc, cur, res, tries>>
               ELSE /\ tsend' = Append(tsend, "rate")
                    /\ cur' = [cur EXCEPT ![w] = m]
                    /\ IF IsFileLink(link)
                       THEN /\ res' = [res EXCEPT ![w] = FileBranchResult]
                            /\ wpc' = [wpc EXCEPT ![w] = "dead"]
                            /\ fate' = Append(fate, "error")
                            /\ UNCHANGED tries
                       ELSE /\ TabCapacity
                            /\ res' = [res EXCEPT ![w] = ""]
                            /\ wpc' = [wpc EXCEPT ![w] = "tab"]
                            /\ tries' = [tries EXCEPT ![w] = 1]
                            /\ fate' = Append(fate, "handling")
    /\ UNCHANGED <<limVars, bare, tabs, open_tab_count, fails>>

\* tenacity.stop_after_attempt(3) of _get_tab (line 57)
TabAttempts == 3

\* tenacity.stop_after_attempt(3) of _navigate (line 66)
NavAttempts == 3

TabExhausted(w) == tries[w] >= TabAttempts

NavExhausted_Late(w) == tries[w] >= NavAttempts + 1

NavExhausted(w) == tries[w] >= NavAttempts

\* _get_tab line 64 and process_link line 114-116: newPage answers within 3 s;
\* the response listener is registered and _navigate calls tab.goto.
TabOpened(w) ==
    /\ wpc[w] = "tab"
    /\ browser = "open"
    /\ tabs' = tabs + 1
    /\ wpc' = [wpc EXCEPT ![w] = "nav"]
    /\ tries' = [tries EXCEPT ![w] = 1]
    /\ UNCHANGED <<limVars, bare, msgs, msgid, fate, reply, tsend, tedit, tatt, editkind,
                   res, cur, open_tab_count, fails>>

\* _get_tab line 57, 64: wait_for times out; tenacity retries up to 3
\* attempts, then RetryError leaves process_link and _process.
TabTimeout(w) ==
    /\ wpc[w] = "tab"
    /\ IF ~TabExhausted(w)
       THEN /\ tries' = [tries EXCEPT ![w] = @ + 1]
            /\ UNCHANGED <<wpc, res, fate>>
       ELSE /\ tries' = [tries EXCEPT ![w] = 0]
            /\ res' = [res EXCEPT ![w] = "RetryError"]
            /\ wpc' = [wpc EXCEPT ![w] = "dead"]
            /\ fate' = [fate EXCEPT ![cur[w]] = "error"]
    /\ UNCHANGED <<limVars, bare, msgs, msgid, reply, tsend, tedit, tatt, editkind,
                   cur, tabs, open_tab_count, fails>>

\* _navigate line 70, 75 and process_link line 120-122: goto succeeds, _fails
\* is reset and the screenshot is asked for.
NavOk(w) ==
    /\ wpc[w] = "nav"
    /\ browser = "open"
    /\ fails' = 0
    /\ tries' = [tries EXCEPT ![w] = 0]
    /\ wpc' = [wpc EXCEPT ![w] = "shot"]
    /\ UNCHANGED <<limVars, bare, msgs, msgid, fate, reply, tsend, tedit, tatt, editkind,
                   res, cur, tabs, open_tab_count>>

\* _navigate line 66, 71-73 and process_link line 117-119: goto fails;
\* tenacity retries up to 3 attempts, then process_link counts the failure
\* and returns None (the tab stays open), and _process awaits message_task.
NavFail(w) ==
    /\ wpc[w] = "nav"
    /\ IF ~NavExhausted(w)
       THEN /\ tries' = [tries EXCEPT ![w] = @ + 1]
            /\ UNCHANGED <<wpc, res, fails>>
       ELSE /\ tries' = [tries EXCEPT ![w] = 0]
            /\ fails' = fails + 1
            /\ res' = [res EXCEPT ![w] = "null"]
            /\ wpc' = [wpc EXCEPT ![w] = "send"]
    /\ UNCHANGED <<limVars, bare, msgs, msgid, fate, reply, tsend, tedit, tatt, editkind,
                   cur, tabs, open_tab_count>>

\* process_link line 122-125: the screenshot is written, tab.close is called.
ShotOk(w) ==
    /\ wpc[w] = "shot"
    /\ browser = "open"
    /\ wpc' = [wpc EXCEPT ![w] = "close"]
    /\ UNCHANGED <<limVars, bare, msgs, msgid, fate, reply, tsend, tedit, tatt, editkind,
                   tries, res, cur, tabs, open_tab_count, fails>>

\* process_link line 122: the screenshot raises; the exception leaves
\* process_link and _process, the tab stays open.
ShotFail(w) ==
    /\ wpc[w] = "shot"
    /\ res' = [res EXCEPT ![w] = "ScreenshotError"]
    /\ wpc' = [wpc EXCEPT ![w] = "dead"]
    /\ fate' = [fate EXCEPT ![cur[w]] = "error"]
    /\ UNCHANGED <<limVars, bare, msgs, msgid, reply, tsend, tedit, tatt, editkind,
                   tries, cur, tabs, open_tab_count, fails>>

\* process_link line 125-149: the tab is closed and the ResolvedLink with its
\* snapshot is returned; _process awaits message_task.
CloseDone(w) ==
    /\ wpc[w] = "close"
    /\ browser = "open"
    /\ tabs' = tabs - 1
    /\ res' = [res EXCEPT ![w] = "link"]
    /\ wpc' = [wpc EXCEPT ![w] = "send"]
    /\ UNCHANGED <<limVars, bare, msgs, msgid, fate, reply, tsend, tedit, tatt, editkind,
                   tries, cur, open_tab_count, fails>>

\* Mutant of EndsAfterEdit: only the file sentinel ends the handling.
EndsAfterEdit_FileOnly(r) == r = "file"

\* _process line 101-108 and 111-118: after the edit for a link that could
\* not be opened (None) or that is a file, `continue`.
EndsAfterEdit(r) == r \in {"null", "file"}

AfterCaptcha_Continue == "next"

\* _process line 96-98: VkCaptchaNeeded from message_task is turned into
\* RuntimeError('Captcha'), which ends the worker.
AfterCaptcha == "dead"

\* _process line 94-138 and api_upload_photo line 113-120: message_task is
\* done. Captcha raises RuntimeError. None queues the timeout edit, the file
\* sentinel queues the file edit, and the worker continues. A resolved link
\* queues the text edit and api_upload_photo posts the photo bytes to the
\* upload URI (set by register, so line 114-115 is skipped): no _rate()
\* precedes the post.
SendAwaited(w) ==
    /\ wpc[w] = "send"
    /\ tsend[cur[w]] \in {"done", "captcha"}
    /\ IF tsend[cur[w]] = "captcha"
       THEN /\ wpc' = [wpc EXCEPT ![w] = AfterCaptcha]
            /\ fate' = [fate EXCEPT ![cur[w]] = "captcha"]
            /\ UNCHANGED <<tedit, editkind, cur, res, bare, msgid>>
       ELSE /\ tedit' = [tedit EXCEPT ![cur[w]] = "rate"]
            /\ msgid' = [msgid EXCEPT ![cur[w]].edit = EditMsgId(w)]
            /\ IF EndsAfterEdit(res[w])
               THEN /\ editkind' = [editkind EXCEPT ![cur[w]] =
                                        IF res[w] = "null" THEN "timeout" ELSE "file"]
                    /\ fate' = [fate EXCEPT ![cur[w]] = "done"]
                    /\ wpc' = [wpc EXCEPT ![w] = "next"]
                    /\ cur' = [cur EXCEPT ![w] = 0]
                    /\ res' = [res EXCEPT ![w] = ""]
                    /\ UNCHANGED bare
               ELSE /\ editkind' = [editkind EXCEPT ![cur[w]] = "resolved"]
                    /\ Issue("upload", FALSE)
                    /\ wpc' = [wpc EXCEPT ![w] = "post"]
                    /\ UNCHANGED <<fate, cur, res>>
    /\ UNCHANGED <<limVars, msgs, reply, tsend, tatt, tries, tabs, open_tab_count, fails>>

\* api_upload_photo line 121-125: the upload answers; _rate() (first pass of
\* wait_for_token), then photos.saveMessagesPhoto goes out.
PostDone(w) ==
    /\ wpc[w] = "post"
    /\ \E ok \in BOOLEAN :
        /\ RateFirst(ok)
        /\ wpc' = [wpc EXCEPT ![w] = IF ok THEN "save" ELSE "usleep"]
        /\ IF ok THEN Issue("saveMessagesPhoto", TRUE) ELSE UNCHANGED bare
    /\ UNCHANGED <<msgs, msgid, fate, reply, tsend, tedit, tatt, editkind, tries, res,
                   cur, tabs, open_tab_count, fails>>

\* api_upload_photo line 124-125: _rate() after a sleep(0.1).
UploadRateRetry(w) ==
    /\ wpc[w] = "usleep"
    /\ \E ok \in BOOLEAN :
        /\ RateRetry(ok)
        /\ wpc' = [wpc EXCEPT ![w] = IF ok THEN "save" ELSE "usleep"]
        /\ IF ok THEN Issue("saveMessagesPhoto", TRUE) ELSE UNCHANGED bare
    /\ UNCHANGED <<msgs, msgid, fate, reply, tsend, tedit, tatt, editkind, tries, res,
                   cur, tabs, open_tab_count, fails>>

\* api_upload_photo line 130-132 and _process line 139-148: the photo id is
\* returned, the edit with the attachment is queued, and the worker continues.
SaveDone(w) ==
    /\ wpc[w] = "save"
    /\ tatt' = [tatt EXCEPT ![cur[w]] = "rate"]
    /\ fate' = [fate EXCEPT ![cur[w]] = "done"]
    /\ wpc' = [wpc EXCEPT ![w] = "next"]
    /\ cur' = [cur EXCEPT ![w] = 0]
    /\ res' = [res EXCEPT ![w] = ""]
    /\ UNCHANGED <<limVars, bare, msgs, msgid, reply, tsend, tedit, editkind, tries,
                   tabs, open_tab_count, fails>>

\* A queued API task does its _rate(): the first pass of wait_for_token, or
\* a pass after sleep(0.1). With the token the call goes out at once.
AuxRate(t, tn, m, op) ==
    /\ t[m] \in {"rate", "sleep"}
    /\ \E ok \in BOOLEAN :
        /\ IF t[m] = "rate" THEN RateFirst(ok) ELSE RateRetry(ok)
        /\ tn = [t EXCEPT ![m] = IF ok THEN "call" ELSE "sleep"]
        /\ IF ok THEN Issue(op, TRUE) ELSE UNCHANGED bare

\* api_send_msg line 148-149
SendRate(m) ==
    /\ AuxRate(tsend, tsend', m, "send")
    /\ UNCHANGED <<msgs, msgid, fate, reply, tedit, tatt, editkind, tries, res, cur, wpc,
                   tabs, open_tab_count, fails>>

\* api_send_msg line 149-155: messages.send answers with the message id, or
\* VkCaptchaNeeded is raised.
SendAnswer(m) ==
    /\ tsend[m] = "call"
    /\ \E r \in {"done", "captcha"} :
        /\ tsend' = [tsend EXCEPT ![m] = r]
        /\ reply' = [reply EXCEPT ![m] = IF r = "done" THEN "processing" ELSE @]
        /\ msgid' = [msgid EXCEPT ![m].sent = IF r = "done" THEN NextMsgId ELSE @]
    /\ UNCHANGED <<limVars, bare, msgs, fate, tedit, tatt, editkind, tries, res,
                   cur, wpc, tabs, open_tab_count, fails>>

\* api_edit_msg line 171-172, the text edit
EditRate(m) ==
    /\ AuxRate(tedit, tedit', m, "edit")
    /\ UNCHANGED <<msgs, msgid, fate, reply, tsend, tatt, editkind, tries, res, cur, wpc,
                   tabs, open_tab_count, fails>>

\* api_edit_msg line 172-177: messages.edit replaces the text and, with
\* attachment '', the attachments of the reply.
EditAnswer(m) ==
    /\ tedit[m] = "call"
    /\ tedit' = [tedit EXCEPT ![m] = "done"]
    /\ reply' = [reply EXCEPT ![EditTarget(m)] = editkind[m]]
    /\ UNCHANGED <<limVars, bare, msgs, msgid, fate, tsend, tatt, editkind, tries, res,
                   cur, wpc, tabs, open_tab_count, fails>>

\* api_edit_msg line 171-172, the edit with the attachment
AttachRate(m) ==
    /\ AuxRate(tatt, tatt', m, "edit")
    /\ UNCHANGED <<msgs, msgid, fate, reply, tsend, tedit, editkind, tries, res, cur, wpc,
                   tabs, open_tab_count, fails>>

\* api_edit_msg line 172-177: messages.edit sets the text and the photo.
AttachAnswer(m) ==
    /\ tatt[m] = "call"
    /\ tatt' = [tatt EXCEPT ![m] = "done"]
    /\ reply' = [reply EXCEPT ![EditTarget(m)] = "attached"]
    /\ UNCHANGED <<limVars, bare, msgs, msgid, fate, tsend, tedit, editkind, tries, res,
                   cur, wpc, tabs, open_tab_count, fails>>

\* Time passes while the loop runs.
PipeClock ==
    /\ loop \notin {"stopped", "closed"}
    /\ ClockStep
    /\ UNCHANGED <<value, slept_for, bare, wpc, cur, pipeVars>>

RunFrame ==
    UNCHANGED <<ghostVars, startVars, chain, launching, evlog, lpTs, listen_to,
                cursor, req, resp, batch, got, out, yielded, delivered>>

PipeFrame == RunFrame /\ UNCHANGED browser

\* The aux tasks that are not done (start line 180).
Unfinished(t, kind) == {<<m, kind>> : m \in {n \in DOMAIN t : t[n] \in {"rate", "sleep", "call"}}}

PendingTasks == Unfinished(tsend, "send") \cup Unfinished(tedit, "edit") \cup Unfinished(tatt, "att")

TaskPc(t) ==
    IF t[2] = "send" THEN tsend[t[1]]
    ELSE IF t[2] = "edit" THEN tedit[t[1]] ELSE tatt[t[1]]

\* gather(*pending_tasks) of line 184 is done without an exception: every
\* pending task finished (DrainDone).
DrainDone_NoWait == TRUE

DrainDone == \A t \in pending : TaskPc(t) = "done"

\* gather(*pending_tasks) of line 184 is done: every task finished, or one
\* raised.
DrainOver ==
    \/ \E t \in pending : TaskPc(t) = "captcha"
    \/ DrainDone

\* start line 161-188, around a step of worker w. The loop runs the step.
\* When the step ends the worker with an exception while start() waits for
\* the pool (line 163), gather hands the exception to start(): the except
\* clause logs it, pool.cancel() on the finished gather cancels nothing,
\* the pending aux tasks are collected and waited for (line 180-184); with
\* none pending, line 188 raises the pool's exception again and start() is
\* left.
WorkerSched(w) ==
    /\ loop \in {"pool", "drain"}
    /\ PipeFrame
    /\ IF loop = "pool" /\ wpc'[w] = "dead"
       THEN /\ pending' = PendingTasks'
            /\ loop' = IF pending' = {} THEN "stopped" ELSE "drain"
       ELSE UNCHANGED <<loop, pending>>

\* start line 184-188, around a step of an aux task. The loop runs the step.
\* When start() waits for the pending tasks and the step finishes that wait:
\* after a worker error, line 188 (or the failed gather of line 184) raises
\* and start() is left; after an interrupt, a failed gather raises as well,
\* and a finished one lets start() go on to line 188.
AuxSched ==
    /\ loop \in {"pool", "drain", "cdrain"}
    /\ PipeFrame
    /\ pending' = pending
    /\ loop' = IF loop \in {"drain", "cdrain"} /\ DrainOver'
               THEN IF loop = "cdrain" /\ DrainDone' THEN "final" ELSE "stopped"
               ELSE loop

\* The send tasks a worker is awaiting (_process line 95) and that are not
\* done.
AwaitedSends ==
    {cur[w] : w \in {v \in Workers : wpc[v] = "send"
                                      /\ tsend[cur[v]] \in {"rate", "sleep", "call"}}}

\* start line 163-188: KeyboardInterrupt arrives while start() waits for the
\* pool. The except clause logs it; pool.cancel() asks every worker task to
\* cancel, and a worker awaiting its message_task passes the request on to
\* that task. The aux tasks not done are collected (line 180), the cancelled
\* send among them: gather(*pending_tasks) then fails with CancelledError and
\* start() is left. With nothing pending start() goes on to line 188.
Interrupt ==
    /\ loop = "pool"
    /\ tsend' = [m \in DOMAIN tsend |-> IF m \in AwaitedSends THEN "cancelled" ELSE tsend[m]]
    /\ pending' = PendingTasks
    /\ loop' = IF AwaitedSends # {} THEN "stopped"
               ELSE IF PendingTasks = {} THEN "final" ELSE "cdrain"
    /\ UNCHANGED <<limVars, bare, wpc, cur, msgs, msgid, fate, reply, tedit, tatt, editkind,
                   tries, res, tabs, open_tab_count, fails>>

\* _process line 150-152: the cancelled worker gets CancelledError at the
\* await it stands at, logs and returns.
WorkerCancelled(w) ==
    /\ loop \in {"cdrain", "final"}
    /\ wpc[w] \notin {"dead", "cancelled"}
    /\ wpc' = [wpc EXCEPT ![w] = "cancelled"]
    /\ UNCHANGED <<limVars, bare, cur, msgs, msgid, fate, reply, tsend, tedit, tatt, editkind,
                   tries, res, tabs, open_tab_count, fails, loop, pending>>

\* What run_until_complete(pool) of line 188 does once every cancelled
\* worker has returned: the gather holds the workers' results and start()
\* goes on to close ("closed"), or, where gather propagates a requested
\* cancellation whatever its children did, CancelledError leaves start()
\* ("stopped"). Which one depends on the asyncio of the build.
PoolOutcomes == {"closed", "stopped"}

\* start line 188-195: the pool is done; vkapi.stop() and web.stop() run
\* unless line 188 raises.
PoolWrapUp ==
    /\ loop = "final"
    /\ \A w \in Workers : wpc[w] \in {"dead", "cancelled"}
    /\ \E o \in PoolOutcomes :
        /\ loop' = o
        /\ browser' = IF o = "closed" THEN "closed" ELSE browser
    /\ UNCHANGED <<limVars, bare, wpc, cur, msgs, msgid, fate, reply, tsend, tedit, tatt,
                   editkind, tries, res, tabs, open_tab_count, fails, pending>>

Next ==
    \/ \E w \in Workers : Deliver(w) /\ WorkerSched(w)
    \/ \E w \in Workers : TabOpened(w) /\ WorkerSched(w)
    \/ \E w \in Workers : TabTimeout(w) /\ WorkerSched(w)
    \/ \E w \in Workers : NavOk(w) /\ WorkerSched(w)
    \/ \E w \in Workers : NavFail(w) /\ WorkerSched(w)
    \/ \E w \in Workers : ShotOk(w) /\ WorkerSched(w)
    \/ \E w \in Workers : ShotFail(w) /\ WorkerSched(w)
    \/ \E w \in Workers : CloseDone(w) /\ WorkerSched(w)
    \/ \E w \in Workers : SendAwaited(w) /\ WorkerSched(w)
    \/ \E w \in Workers : PostDone(w) /\ WorkerSched(w)
    \/ \E w \in Workers : UploadRateRetry(w) /\ WorkerSched(w)
    \/ \E w \in Workers : SaveDone(w) /\ WorkerSched(w)
    \/ \E m \in DOMAIN msgs : SendRate(m) /\ AuxSched
    \/ \E m \in DOMAIN msgs : SendAnswer(m) /\ AuxSched
    \/ \E m \in DOMAIN msgs : EditRate(m) /\ AuxSched
    \/ \E m \in DOMAIN msgs : EditAnswer(m) /\ AuxSched
    \/ \E m \in DOMAIN msgs : AttachRate(m) /\ AuxSched
    \/ \E m \in DOMAIN msgs : AttachAnswer(m) /\ AuxSched
    \/ PipeClock /\ PipeFrame

Spec == InitPipe /\ [][Next]_vars

\* The pipeline with the shutdown signal: the run of Spec, over StopMsgs
\* messages, and KeyboardInterrupt at any moment of it.
NextStop ==
    \/ Next /\ Len(msgs') <= StopMsgs
    \/ \E w \in Workers : WorkerCancelled(w) /\ PipeFrame
    \/ Interrupt /\ PipeFrame
    \/ PoolWrapUp /\ RunFrame

SpecStop == InitPipe /\ [][NextStop]_vars

\* ---------------------------------------------------------------------------
\* The redirect chain of one resolution: _handle_response and process_link
\* line 120-141 (webclient_puppet.py). Hosts and paths are such that none is
\* a part of another.
\* ---------------------------------------------------------------------------

Hosts == {"a.com", "b.com", "c.com"}

\* The links resolved.
ChainLinks == {Item("a.com", "/start"), Item("b.com", "/start")}

\* Where a navigation from link l ends: on some host at /end, or on l itself.
ChainEndpoints(l) == {Item(h, "/end") : h \in Hosts} \cup {l}

\* x in redirect_queue (element equality)
InQueue(x, q) == \E i \in 1..Len(q) : q[i] = x

\* _handle_response line 84-92: the host of the Location header, when there
\* is one and it is not in the queue yet, is appended.
Observe(q, domain) ==
    IF domain # "" /\ ~InQueue(Item(domain, ""), q) THEN Append(q, Item(domain, "")) ELSE q

\* process_link line 127-129
PutStart(q, l) ==
    <<l>> \o (IF InQueue(Item(l.host, ""), q) THEN Tail(q) ELSE q)

\* process_link line 131-133
PutEnd(q, e) ==
    Append(IF InQueue(Item(e.host, ""), q) THEN SubSeq(q, 1, Len(q) - 1) ELSE q, e)

\* What stands between scheme:// and the path in the URL the tab ended on
\* (furl's url): the host alone, credentials and the host, or the host and
\* an explicit port.
ChainNetlocs == {"host", "user@host", "host:port"}

\* `item in endpoint.url`: the item is a substring of the URL. A bare host
\* is part of every URL of that host; host+path is part of it when the path
\* follows the host at once, which an explicit port prevents.
InUrl(item, e, netloc) ==
    /\ item.host = e.host
    /\ \/ item.path = ""
       \/ item.path = e.path /\ netloc # "host:port"

\* process_link line 135-141, as the strings that " -> " joins: the items up
\* to and including the first one that is part of endpoint.url; when there
\* is none, every item is followed by the arrow, and the empty string ends
\* the chain.
RenderChain(q, e, netloc) ==
    LET hits == {i \in 1..Len(q) : InUrl(q[i], e, netloc)}
    IN  IF hits = {} THEN Append(q, Item("", ""))
        ELSE SubSeq(q, 1, CHOOSE i \in hits : \A j \in hits : i <= j)

\* The tabs: 1 is the tab of the resolution looked at, 2 the tab of the
\* resolution that runs at the same time.
ChainTabs == {1, 2}

\* Mutant of ListenerQueue: every listener writes the one queue.
ListenerQueue_Shared(tab) == 1

\* process_link line 97, 114: the listener registered on a call's tab is
\* partial(self._handle_response, queue=redirect_queue) with the deque that
\* call created: the listener of tab t writes the queue of resolution t.
ListenerQueue(tab) == tab

\* tab.goto runs: a response comes in on a tab, with a Location host or
\* without, and the tab's listener runs.
HandleResponse(tab, domain) ==
    /\ chain.pc = "nav"
    /\ chain.evt.n < MaxResponses
    /\ chain' = [chain EXCEPT
                    !.queue = IF ListenerQueue(tab) = 1 THEN Observe(@, domain) ELSE @,
                    !.peer = IF ListenerQueue(tab) = 2 THEN Observe(@, domain) ELSE @,
                    !.evt = [n |-> @.n + 1, tab |-> tab, domain |-> domain]]

\* process_link line 120-133: the navigation has ended at endpoint e, the
\* tab's URL having netloc n; the start and the end are put into the queue.
ChainResolved(e, n) ==
    /\ chain.pc = "nav"
    /\ chain' = [chain EXCEPT !.pc = "render",
                              !.endpoint = e,
                              !.netloc = n,
                              !.seen = chain.queue,
                              !.queue = PutEnd(PutStart(chain.queue, chain.link), e)]

\* process_link line 135-141
ChainRender ==
    /\ chain.pc = "render"
    /\ chain' = [chain EXCEPT !.pc = "done",
                              !.str = RenderChain(chain.queue, chain.endpoint, chain.netloc)]

ChainFrame ==
    UNCHANGED <<limVars, ghostVars, pollVars, startVars, tokVars, pipeVars,
                browser, launching>>

InitChain ==
    /\ LimiterInit
    /\ GhostInit
    /\ PollIdle
    /\ Registered
    /\ PipeIdle
    /\ Launched
    /\ \E l \in ChainLinks :
        chain = [pc |-> "nav", link |-> l, endpoint |-> Item("", ""),
                 netloc |-> "host", queue |-> <<>>, seen |-> <<>>, str |-> <<>>,
                 peer |-> <<>>, evt |-> NoEvent]

NextChain ==
    \/ \E tab \in ChainTabs, domain \in Hosts \cup {""} : HandleResponse(tab, domain) /\ ChainFrame
    \/ \E e \in ChainEndpoints(chain.link), n \in ChainNetlocs : ChainResolved(e, n) /\ ChainFrame
    \/ ChainRender /\ ChainFrame

SpecChain == InitChain /\ [][NextChain]_vars

\* ---------------------------------------------------------------------------
\* PuppetClient as a component (webclient_puppet.py line 34-149): its owner
\* calls start() and stop(), callers call process_link, in any order.
\* ---------------------------------------------------------------------------

PageText == [start |-> TRUE, br |-> TRUE, url |-> PageUrl]

\* The worker's process_link call holds a tab.
InTab(w) == wpc[w] \in {"nav", "shot", "close"}

\* What the client's own actions leave alone.
ClientFrame ==
    UNCHANGED <<ghostVars, startVars, limVars, bare, chain, evlog, lpTs, listen_to,
                cursor, req, resp, batch, got, out, yielded, delivered, loop,
                pending, open_tab_count>>

\* A step of a process_link call in progress.
ClientSched == PipeFrame /\ UNCHANGED <<loop, pending>>

\* start line 45-47: pyp.launch is called and awaited; _browser keeps its
\* value meanwhile.
ClientStartCall ==
    /\ ~launching
    /\ browser # "open"
    /\ launching' = TRUE
    /\ UNCHANGED <<browser, tabs, wpc, cur, res, tries, fails, msgs, msgid, fate, reply,
                   tsend, tedit, tatt, editkind>>

\* start line 47-50: the browser is launched and stored.
ClientStartDone ==
    /\ launching
    /\ launching' = FALSE
    /\ browser' = "open"
    /\ tabs' = 0
    /\ UNCHANGED <<wpc, cur, res, tries, fails, msgs, msgid, fate, reply, tsend, tedit,
                   tatt, editkind>>

\* stop line 52-55: the browser is closed, and its tabs with it; _browser
\* keeps the handle. The owner stops while no call holds a tab.
ClientStop ==
    /\ browser = "open"
    /\ \A w \in Workers : ~InTab(w)
    /\ browser' = "closed"
    /\ tabs' = 0
    /\ UNCHANGED <<launching, wpc, cur, res, tries, fails, msgs, msgid, fate, reply, tsend,
                   tedit, tatt, editkind>>

\* What browser.newPage() does on the handle of a closed browser: the
\* request is never answered, or the connection error is raised at once.
ClosedHandleOutcomes == {"tab", "dead"}

\* process_link line 95-113 and _get_tab line 59-64, called with a page
\* link: no state of the client is looked at, self._browser.newPage() is
\* called on whatever _browser is. On None it raises AttributeError, which
\* is no TimeoutError, so that tenacity does not retry.
ClientCall(w) ==
    /\ wpc[w] = "next"
    /\ Len(msgs) < ClientCalls
    /\ TabCapacity
    /\ msgs' = Append(msgs, PageText)
    /\ reply' = Append(reply, "none")
    /\ tsend' = Append(tsend, "none")
    /\ tedit' = Append(tedit, "none")
    /\ tatt' = Append(tatt, "none")
    /\ editkind' = Append(editkind, "")
    /\ msgid' = Append(msgid, [sent |-> NoId, edit |-> NoId])
    /\ cur' = [cur EXCEPT ![w] = Len(msgs) + 1]
    /\ \E o \in IF browser = "none" THEN {"dead"}
                ELSE IF browser = "open" THEN {"tab"} ELSE ClosedHandleOutcomes :
        /\ wpc' = [wpc EXCEPT ![w] = o]
        /\ tries' = [tries EXCEPT ![w] = IF o = "tab" THEN 1 ELSE 0]
        /\ res' = [res EXCEPT ![w] = IF o = "tab" THEN ""
                                     ELSE IF browser = "none" THEN "AttributeError"
                                     ELSE "BrowserError"]
        /\ fate' = Append(fate, IF o = "tab" THEN "handling" ELSE "error")
    /\ UNCHANGED <<browser, launching, tabs, fails>>

\* process_link has returned or raised: the caller has its outcome.
ClientReturn(w) ==
    /\ wpc[w] \in {"send", "dead"}
    /\ wpc' = [wpc EXCEPT ![w] = "next"]
    /\ cur' = [cur EXCEPT ![w] = 0]
    /\ res' = [res EXCEPT ![w] = ""]
    /\ fate' = [fate EXCEPT ![cur[w]] = IF wpc[w] = "send" THEN "done" ELSE @]
    /\ UNCHANGED <<browser, launching, tabs, fails, tries, msgs, msgid, reply, tsend, tedit,
                   tatt, editkind>>

\* The client as constructed: no browser.
InitClient ==
    /\ LimiterInit
    /\ GhostInit
    /\ WebIdle
    /\ Registered
    /\ PipeIdle
    /\ browser = "none"
    /\ launching = FALSE
    /\ evlog = <<>>
    /\ lpTs = 0
    /\ listen_to = ListenPeer
    /\ cursor = -1
    /\ wpc = [w \in Workers |-> "next"]
    /\ req = [w \in Workers |-> 0]
    /\ resp = [w \in Workers |-> NoResp]
    /\ batch = [w \in Workers |-> <<>>]
    /\ cur = [w \in Workers |-> 0]
    /\ got = [w \in Workers |-> NoResp]
    /\ out = [w \in Workers |-> <<>>]
    /\ yielded = <<>>
    /\ delivered = {}

NextClient ==
    \/ ClientStartCall /\ ClientFrame
    \/ ClientStartDone /\ ClientFrame
    \/ ClientStop /\ ClientFrame
    \/ \E w \in Workers : ClientCall(w) /\ ClientFrame
    \/ \E w \in Workers : ClientReturn(w) /\ ClientFrame
    \/ \E w \in Workers : TabOpened(w) /\ ClientSched
    \/ \E w \in Workers : TabTimeout(w) /\ ClientSched
    \/ \E w \in Workers : NavOk(w) /\ ClientSched
    \/ \E w \in Workers : NavFail(w) /\ ClientSched
    \/ \E w \in Workers : ShotOk(w) /\ ClientSched
    \/ \E w \in Workers : ShotFail(w) /\ ClientSched
    \/ \E w \in Workers : CloseDone(w) /\ ClientSched

SpecClient == InitClient /\ [][NextClient]_vars

\* ---------------------------------------------------------------------------
\* Claims about the pipeline (Spec)
\* ---------------------------------------------------------------------------

\* C1: every message in which a link was found, handled by a worker that
\* did not die from a policy rejection (captcha), has its 'processing' reply
\* edited to a terminal state (resolved, file or timed out), whatever
\* process_link did: once the worker is through with the message (it
\* continued, or an exception of process_link ended it), the 'processing'
\* reply is posted and no edit of the message is queued or in flight, so
\* that nothing can change the reply any more, the reply is terminal.
C1_EveryLinkTerminal ==
    \A m \in DOMAIN msgs :
        ( /\ FindLink(msgs[m]) # NoLink
          /\ fate[m] \in {"done", "error"}
          /\ tsend[m] = "done"
          /\ tedit[m] \in {"none", "done"}
          /\ tatt[m] \in {"none", "done"} )
        => reply[m] \in Terminal

\* C8: every call to the chat API (list dialogs, get upload URL, upload
\* photo bytes, save uploaded photo, send message, edit message) is issued
\* only after its call site obtained a token through wait_for_token: no
\* operation has gone out without one.
C8_EveryCallHasToken == bare = {}

\* C10: process_link on a URL classified as a file (extension not .html or
\* .php) ends by returning the sentinel result, with no tab acquired; on
\* any other URL it does not return the sentinel.
C10_FileLinkSentinel ==
    \A w \in Workers :
        (cur[w] # 0 /\ res[w] # "")
        => (res[w] = "file" <=> IsFileLink(FindLink(msgs[cur[w]])))

\* The workers whose process_link call holds a tab.
C11_TabHolders == {w \in Workers : wpc[w] \in {"nav", "shot", "close"}}

\* C11: every tab obtained by a process_link call is closed before the call
\* returns or fails: the tabs open in the browser are those of the calls
\* that are still between obtaining their tab and closing it.
C11_TabsClosed == tabs = Cardinality(C11_TabHolders)

\* C12: at every moment the number of tabs open in the browser is at most
\* max_tabs, and the pool's open-tab counter equals the number of tabs open.
C12_TabCount == tabs <= max_tabs /\ open_tab_count = tabs

\* C13: navigation is attempted at most 3 times per link; when all attempts
\* fail, process_link returns null (no exception reaches the worker: the
\* worker is not ended by it), and the worker, once its 'processing' send is
\* done, queues the timeout edit and goes on to the next message.
C13_NavRetriesThenNull ==
    /\ [](\A w \in Workers : wpc[w] = "nav" => tries[w] \in 1..3)
    /\ [][\A w \in Workers :
            /\ (wpc[w] = "nav" /\ wpc'[w] \notin {"nav", "shot", "cancelled"})
               => (tries[w] = 3 /\ res'[w] = "null" /\ wpc'[w] = "send")
            /\ (wpc[w] = "send" /\ res[w] = "null" /\ tsend[cur[w]] = "done"
                /\ wpc'[w] \notin {"send", "cancelled"})
               => (wpc'[w] = "next" /\ editkind'[cur[w]] = "timeout"
                   /\ tedit'[cur[w]] = "rate")]_vars

C13_Witness == \E m \in DOMAIN msgs : editkind[m] = "timeout" /\ fate[m] = "done"

\* The hosts of the links found so far.
C14_Hosts ==
    {FindLink(msgs[m]).host : m \in {n \in DOMAIN msgs : FindLink(msgs[n]) # NoLink}}

\* C14: the failure counter counts consecutive navigation failures on
\* distinct hosts (a repeated failure of the most recently failed host is
\* not counted again), and reaching 4 restarts the pool and resets it to 0.
\* Stated on the counter: it never exceeds the number of distinct hosts
\* navigated so far, and it stays below 4.
C14_FailsCountDistinctHosts == fails <= Cardinality(C14_Hosts) /\ fails < 4

\* C15: when tab acquisition times out on all 3 attempts, process_link
\* returns null to its caller and the worker keeps running: process_link
\* never ends with the RetryError of _get_tab.
C15_TabExhaustionReturnsNull == \A w \in Workers : res[w] # "RetryError"

\* ---------------------------------------------------------------------------
\* Claims about shutdown (SpecStop)
\* ---------------------------------------------------------------------------

\* C16: at the moment the browser pool and the chat connections are closed,
\* every worker routine has terminated and every aux task issued so far has
\* finished; the order is: cancel the workers, then drain, then close (the
\* drain is entered from the running pool only, line 188 is reached only
\* with nothing pending, and the close only from line 188).
C16_ShutdownOrder ==
    /\ [](loop = "closed"
            => /\ \A w \in Workers : wpc[w] \in {"dead", "cancelled"}
               /\ PendingTasks = {})
    /\ [][(loop' = "cdrain" /\ loop # "cdrain") => loop = "pool"]_vars
    /\ [][(loop' = "final" /\ loop # "final")
            => (loop \in {"pool", "cdrain"} /\ PendingTasks' = {})]_vars
    /\ [][(loop' = "closed" /\ loop # "closed") => loop = "final"]_vars

C16_Witness ==
    /\ loop = "closed"
    /\ \E m \in DOMAIN msgs : tsend[m] = "done"
    /\ \E w \in Workers : wpc[w] = "cancelled"

\* C17: once the run of the worker pool has ended, by a shutdown signal or
\* by a worker error, start() closes the browser pool and the chat
\* connections: start() is never left by an exception before the close.
C17_CloseReached == loop # "stopped"

\* C18: if sending the 'processing' reply fails with a captcha demand, the
\* issuing worker's loop terminates: the worker's next step ends it, the
\* send is not retried, and an ended worker stays ended on the message it
\* had, processing no further message.
C18_CaptchaEndsWorker ==
    /\ [][\A w \in Workers :
            (wpc[w] = "send" /\ tsend[cur[w]] = "captcha" /\ wpc'[w] # "send")
            => wpc'[w] \in {"dead", "cancelled"}]_vars
    /\ [][\A w \in Workers :
            wpc[w] = "dead" => (wpc'[w] = "dead" /\ cur'[w] = cur[w])]_vars
    /\ [][\A m \in DOMAIN msgs :
            tsend[m] = "captcha" => tsend'[m] = "captcha"]_vars

C18_Witness ==
    \E w \in Workers :
        wpc[w] = "dead" /\ cur[w] # 0 /\ fate[cur[w]] = "captcha"
                        /\ tsend[cur[w]] = "captcha"

\* ---------------------------------------------------------------------------
\* Claims about the redirect chain (SpecChain)
\* ---------------------------------------------------------------------------

RECURSIVE C19_IsSubseq(_, _)
\* a is a subsequence of b
C19_IsSubseq(a, b) ==
    IF a = <<>> THEN TRUE
    ELSE IF b = <<>> THEN FALSE
    ELSE IF Head(a) = Head(b) THEN C19_IsSubseq(Tail(a), Tail(b))
    ELSE C19_IsSubseq(a, Tail(b))

\* C19: for every resolution the rendered redirect chain has the original
\* host+path first and the endpoint host+path last, and every distinct
\* Location host observed during navigation occurs in it, in first-seen
\* order: no observed hop is dropped or reordered.
C19_ChainKeepsHops ==
    chain.pc = "done"
    => /\ chain.str # <<>>
       /\ chain.str[1] = chain.link
       /\ chain.str[Len(chain.str)] = chain.endpoint
       /\ C19_IsSubseq([i \in 1..Len(chain.seen) |-> chain.seen[i].host],
                       [i \in 1..Len(chain.str) |-> chain.str[i].host])

\* ---------------------------------------------------------------------------
\* Claims about the client as a component (SpecClient)
\* ---------------------------------------------------------------------------

\* C20: process_link requests a tab only while the pool is ready: a call
\* made while the pool is not started, starting or stopped waits (starting a
\* stopped pool itself) and never uses the browser handle in another state.
\* A tab request is pending only on a launched browser that has not been
\* closed, and no call fails on the missing handle.
C20_TabOnlyWhenReady ==
    \A w \in Workers :
        /\ wpc[w] = "tab" => browser = "open"
        /\ res[w] \notin {"AttributeError", "BrowserError"}

\* ---------------------------------------------------------------------------
\* Claims about the order of the detached tasks (Spec)
\* ---------------------------------------------------------------------------

\* C21: for a resolved link with a snapshot, the edit that carries the
\* attachment goes out to the chat API after the text-only edit of the same
\* reply, for every interleaving of the two detached edit tasks at the rate
\* limiter, so that, both edits done, the reply holds the text and the
\* attachment.
C21_AttachAfterText ==
    \A m \in DOMAIN msgs :
        /\ tatt[m] \in {"call", "done"} => tedit[m] \in {"call", "done"}
        /\ (tedit[m] = "done" /\ tatt[m] = "done") => reply[m] = "attached"

\* C22: for each link the 'processing' send is started before browser
\* resolution begins (while process_link works on a link, the send task of
\* that link exists), and no edit for the link is issued before the send has
\* returned: whenever an edit task of a message exists, the message's send
\* is done, and the msg_id the edit carries is the id that send returned and
\* the id of no other message's reply.
C22_EditUsesOwnSend ==
    /\ \A w \in Workers :
          wpc[w] \in {"tab", "nav", "shot", "close"} => tsend[cur[w]] # "none"
    /\ \A m \in DOMAIN msgs :
          (tedit[m] # "none" \/ tatt[m] # "none")
          => /\ tsend[m] = "done"
             /\ msgid[m].edit # NoId
             /\ msgid[m].edit = msgid[m].sent
             /\ \A n \in DOMAIN msgs \ {m} : msgid[n].sent # msgid[m].edit

\* C22 witness: two replies whose sends returned in the order opposite to
\* that of their messages, each edited by its own edit task.
C22_Witness ==
    /\ Len(msgs) = 2
    /\ msgid[1].sent = 2
    /\ msgid[2].sent = 1
    /\ tedit[1] = "done"
    /\ tedit[2] = "done"
    /\ reply[1] = editkind[1]
    /\ reply[2] = editkind[2]

\* ---------------------------------------------------------------------------
\* Claims about the response listener (SpecChain)
\* ---------------------------------------------------------------------------

\* A queue holds no host twice.
C23_NoDuplicate(q) == \A i, j \in 1..Len(q) : q[i] = q[j] => i = j

\* What the listener's queue is after a response with Location host d.
C23_Appended(q, d) ==
    IF d # "" /\ ~InQueue(Item(d, ""), q) THEN Append(q, Item(d, "")) ELSE q

\* C23: during a link resolution the response listener appends the host of a
\* response's Location header to that resolution's redirect queue if and
\* only if the host is non-empty and not yet in the queue, at the end of the
\* queue (first-seen order); the queue never holds a host twice, and the
\* listener of one resolution never writes the queue of another one.
C23_ListenerAppendsOnce ==
    /\ [](chain.pc = "nav"
            => C23_NoDuplicate(chain.queue) /\ C23_NoDuplicate(chain.peer))
    /\ [][chain'.evt.n # chain.evt.n
            => /\ chain'.evt.tab = 1
                  => /\ chain'.queue = C23_Appended(chain.queue, chain'.evt.domain)
                     /\ chain'.peer = chain.peer
               /\ chain'.evt.tab = 2
                  => /\ chain'.peer = C23_Appended(chain.peer, chain'.evt.domain)
                     /\ chain'.queue = chain.queue]_vars

\* C23 witness: both resolutions have seen the same host, each in its own
\* queue, and a response of the resolution looked at added nothing (its
\* host was in the queue already).
C23_Witness ==
    /\ chain.pc = "nav"
    /\ chain.evt.n = MaxResponses
    /\ chain.evt.tab = 1
    /\ chain.evt.domain # ""
    /\ Len(chain.queue) = 1
    /\ Len(chain.peer) = 1
    /\ chain.queue[1] = chain.peer[1]

\* ---------------------------------------------------------------------------
\* Further claims about the RateLimiter (SpecLimiter)
\* ---------------------------------------------------------------------------

\* C24: wait_for_token returns only after a tick has granted the caller a
\* token, and what it returns is the time that call spent waiting: 0 when
\* the token was granted on the first attempt, however long earlier calls
\* waited. A call's return value equals the sleeps of that call.
C24_ReturnsOwnWait ==
    \A c \in Callers : (lpc[c] = "idle" /\ ret[c] # -1) => ret[c] = waited[c]

\* ---------------------------------------------------------------------------
\* Claims about waiting for a token (SpecWait)
\* ---------------------------------------------------------------------------

\* C25: a task suspended in wait_for_token that is the only consumer of the
\* limiter is eventually granted a token as time advances; with several
\* competing waiters an individual waiter has no such guarantee, but some
\* waiter is granted: when every consumer of the limiter is suspended in
\* wait_for_token, one of them eventually returns.
C25_WaitersProgress ==
    /\ \A c \in Callers :
          (lpc[c] = "sleep" /\ \A d \in Callers \ {c} : lpc[d] = "off")
              ~> (lpc[c] = "idle")
    /\ ((\E c \in Callers : lpc[c] = "sleep")
          /\ (\A c \in Callers : lpc[c] \in {"sleep", "off"}))
              ~> (\E c \in Callers : lpc[c] = "idle")

\* C25 witness: a waiter that slept was granted a token while another
\* waiter is still suspended.
C25_Witness ==
    \E c, d \in Callers :
        /\ lpc[c] = "idle"
        /\ ret[c] >= 1
        /\ waited[c] >= 1
        /\ lpc[d] = "sleep"
        /\ waited[d] >= 1

\* What C25 says is not guaranteed: every suspended waiter is eventually
\* granted a token.
C25_EveryWaiterServed ==
    \A c \in Callers : (lpc[c] = "sleep") ~> (lpc[c] = "idle")

\* ---------------------------------------------------------------------------
\* Further claims about the pipeline (Spec)
\* ---------------------------------------------------------------------------

\* The text does not begin with an http(s) link that a line break ends.
C26_NoLinkText(t) == ~(t.start /\ t.br)

\* C26: a message that does not begin with a well-formed http(s) link
\* terminated by a line break causes no reply to be sent, no tab to be
\* requested and no edit to be issued, and the worker only advances to the
\* next message: the step that hands it to a worker leaves the worker where
\* it is, the tabs, the limiter and the tasks of the other messages alone,
\* and the message never has a send task, an edit task or a reply.
C26_NoLinkNoEffect ==
    /\ [](\A m \in DOMAIN msgs :
            C26_NoLinkText(msgs[m])
            => /\ tsend[m] = "none"
               /\ tedit[m] = "none"
               /\ tatt[m] = "none"
               /\ reply[m] = "none"
               /\ msgid[m] = [sent |-> NoId, edit |-> NoId])
    /\ [][(Len(msgs') = Len(msgs) + 1 /\ C26_NoLinkText(msgs'[Len(msgs')]))
            => /\ wpc' = wpc
               /\ cur' = cur
               /\ tabs' = tabs
               /\ tries' = tries
               /\ res' = res
               /\ bare' = bare
               /\ value' = value
               /\ \A m \in DOMAIN msgs :
                    /\ tsend'[m] = tsend[m]
                    /\ tedit'[m] = tedit[m]
                    /\ tatt'[m] = tatt[m]
                    /\ reply'[m] = reply[m]]_vars

\* C26 witness: a text with the link not at its start and a text with no
\* line break after the link were both handed to workers.
C26_Witness ==
    /\ Len(msgs) = 2
    /\ ~msgs[1].start
    /\ ~msgs[2].br
    /\ fate[1] = "nolink"
    /\ fate[2] = "nolink"

\* C27: when process_link returns null, the worker issues exactly one edit
\* for that reply, the timed-out state, and performs no snapshot upload and
\* no attachment edit before it moves to the next message: the step in
\* which it moves on queues the timeout edit and nothing else, and a reply
\* with the timeout edit never has an attachment edit.
C27_NullOneEdit ==
    /\ [](\A m \in DOMAIN msgs :
            editkind[m] = "timeout" => (tedit[m] # "none" /\ tatt[m] = "none"))
    /\ [][\A w \in Workers :
            (wpc[w] = "send" /\ res[w] = "null" /\ wpc'[w] \notin {"send", "dead", "cancelled"})
            => /\ wpc'[w] = "next"
               /\ tedit[cur[w]] = "none"
               /\ tedit'[cur[w]] = "rate"
               /\ editkind'[cur[w]] = "timeout"
               /\ tatt'[cur[w]] = "none"
               /\ bare' = bare]_vars
    /\ [][\A m \in DOMAIN msgs :
            editkind[m] = "timeout" => editkind'[m] = "timeout"]_vars

\* C27 witness: the reply of a link that could not be opened shows the
\* timed-out state, its one edit done, and the worker has taken a further
\* message since.
C27_Witness ==
    /\ Len(msgs) = 2
    /\ editkind[1] = "timeout"
    /\ tedit[1] = "done"
    /\ tatt[1] = "none"
    /\ reply[1] = "timeout"
    /\ \A w \in Workers : cur[w] # 1

\* ---------------------------------------------------------------------------
\* Claims about a failed tick (SpecLimiter)
\* ---------------------------------------------------------------------------

\* C28: a tick call that fails (returns False) leaves the limiter state
\* unchanged: neither the token count nor last_updated is modified, so that
\* failed polling never delays or loses a refill. A step that records a
\* failed tick keeps value and the time since last_updated, and only a
\* granted tick changes the token count or sets last_updated.
C28_FailedTickNoEffect ==
    /\ [][((last' # last \/ lpc' # lpc) /\ ~last'.ok)
            => (value' = value /\ since_updated' = since_updated)]_vars
    /\ [][(value' # value \/ since_updated' < since_updated)
            => (last'.ok /\ last'.el = since_updated /\ last'.had = value)]_vars

\* C28 witness: a waiter polled in vain part of a refill interval after the
\* last update, and the time since that update has kept growing to a whole
\* interval.
C28_Witness ==
    /\ value = 0
    /\ ~last.ok
    /\ last.el >= 1
    /\ last.el < Res
    /\ since_updated >= Res
    /\ \E c \in Callers : lpc[c] = "sleep" /\ waited[c] >= 1

\* ---------------------------------------------------------------------------
\* Further claims about the end of the run (Spec)
\* ---------------------------------------------------------------------------

\* C29: when a worker routine ends with an error, all other worker routines
\* are stopped before start() drains the pending tasks: no worker takes a
\* message or creates a background task after the pending set of the drain
\* was computed. While start() waits for the drain, every background task
\* that is not finished is one of the pending set.
C29_NoNewTaskInDrain == loop = "drain" => PendingTasks \subseteq pending

\* ---------------------------------------------------------------------------
\* Further claims about the redirect chain (SpecChain)
\* ---------------------------------------------------------------------------

\* C30: the rendered redirect chain of every successful resolution ends
\* with a queue element and never with the " -> " separator: rendering
\* always reaches an element that is contained in the endpoint URL, for
\* every endpoint URL, those with an explicit port or with credentials
\* included.
C30_ChainEndsWithElement ==
    chain.pc = "done"
    => /\ chain.str # <<>>
       /\ chain.str[Len(chain.str)] # Item("", "")
       /\ InQueue(chain.str[Len(chain.str)], chain.queue)
       /\ InUrl(chain.str[Len(chain.str)], chain.endpoint, chain.netloc)

====
